---- MODULE Spec2Model ----
(***************************************************************************)
(* A model of the MyBackTest back-testing engine: the EMA calculator and   *)
(* the reference strategy ema_trend_strategy of main.py, and the           *)
(* StrategyEngine, TradeManager, ResultAnalyzer and BacktestRunner of      *)
(* modules.py.                                                             *)
(*                                                                         *)
(* Numbers.  Prices are positive integers.  The EMA values of the strategy  *)
(* are exact rationals [n, d] in lowest terms (the values in real          *)
(* arithmetic); the EMA object ema computes in doubles, as Python does.  A stop_loss is a price times 0.9 or 1.1; it is *)
(* held in tenths of a price unit (price * 9, price * 11), so a test       *)
(* "price <= stop_loss" of the source reads Tenths(price) <= stop_loss.    *)
(* A position size is held in tenths as well (0.2 is 2, 0.5 is 5, 1.0 is   *)
(* 10).  Python's None is the value None below.                            *)
(***************************************************************************)
EXTENDS Integers, Sequences, FiniteSets, TLC

VARIABLES
    instruments,        \* BacktestRunner.instruments (set_parameters)
    periods,            \* BacktestRunner.periods (set_parameters)
    datafeed,           \* the data source: (instrument, period) -> series of bars
    start_time,         \* the start of the time range (start_time)
    end_time,           \* the end of the time range (end_time)
    data,               \* the table handed to run_strategy: a sequence of rows
    strategy_function,  \* StrategyEngine.strategy_function
    ema_calculator,     \* the attribute ema_trend_strategy.ema_calculator
    pc,                 \* where the running call stands
    error,              \* the exception that ended the running call, or "None"
    cursor,             \* number of iterations of the current loop already made
    signals,            \* run_strategy's local list signals
    returned,           \* what the calls of run_strategy made so far returned
    calls,              \* the strategy calls of the running call: <<row time, signal returned>>
    frame,              \* the locals of the last strategy call at its return
    ticks,              \* number of strategy calls made so far
    trades_log,         \* TradeManager.trades_log
    positions,          \* TradeManager.positions: instrument -> index into trades_log
    report,             \* what generate_report returned last
    merged_data,        \* run_backtest's local merged_data
    ema,                \* an EMA object of its own, computing in floats
    fed                 \* the prices ema.update was called with, in order

paramVars == <<instruments, periods, datafeed, start_time, end_time>>
engineVars == <<strategy_function, ema_calculator>>
runVars == <<data, pc, error, cursor, signals, returned, calls, frame, ticks>>
tmVars == <<trades_log, positions>>
emaVars == <<ema, fed>>

vars == <<paramVars, engineVars, runVars, tmVars, report, merged_data, emaVars>>

-----------------------------------------------------------------------------
(* Bounds of the model *)

MaxRows == 3        \* rows of a table
MaxCalls == 2       \* calls of run_strategy in one behaviour
MaxTrades == 2      \* trades executed in one behaviour
MaxTicks == 6       \* strategy calls in one behaviour (keeps EMA numerators in range)
MaxUpdates == 4     \* calls of ema.update in one behaviour

Prices == {1, 2, 3}
Instrument == "X"
Times == 1 .. MaxRows

None == -1
NaN == None    \* the null of a joined table

-----------------------------------------------------------------------------
(* Exact rationals *)

RECURSIVE GCD(_, _)
GCD(a, b) == IF b = 0 THEN a ELSE GCD(b, a % b)

Rat(n, d) == LET g == GCD(n, d) IN [n |-> n \div g, d |-> d \div g]

\* x < y for non-negative rationals, by the continued-fraction expansion
\* (no cross product, so no overflow)
RECURSIVE LessND(_, _, _, _)
LessND(a, b, c, d) ==
    LET qa == a \div b
        qc == c \div d
        ra == a % b
        rc == c % d
    IN  IF qa # qc THEN qa < qc
        ELSE IF rc = 0 THEN FALSE
        ELSE IF ra = 0 THEN TRUE
        ELSE LessND(d, rc, b, ra)

RatLess(x, y) == LessND(x.n, x.d, y.n, y.d)

Tenths(x) == 10 * x

-----------------------------------------------------------------------------
(* class EMA *)

NoValue == [isNone |-> TRUE, n |-> 0, d |-> 1]

\* EMA.__init__
EMA(window) ==
    [window |-> window, alpha |-> Rat(2, window + 1), value |-> NoValue]

\* EMA.update
EMA_update(self, price) ==
    IF self.value.isNone
    THEN [self EXCEPT !.value = [isNone |-> FALSE, n |-> price, d |-> 1]]
    ELSE LET an == self.alpha.n
             ad == self.alpha.d
             v  == Rat(an * price * self.value.d + (ad - an) * self.value.n,
                       ad * self.value.d)
         IN  [self EXCEPT !.value = [isNone |-> FALSE, n |-> v.n, d |-> v.d]]

-----------------------------------------------------------------------------
(* Python's float: an IEEE 754 double, held as [m, e] for the value        *)
(* m * 2^e with m a natural number of exactly Precision bits (the values   *)
(* here are positive and normal).  m is a natural number of any size, held *)
(* as its digits in base Limb, least significant first, no leading zero.   *)

Limb == 32768       \* 2^15: a product of two digits fits a machine integer
LimbBits == 15
Precision == 53     \* bits of the significand of a double

RECURSIVE Pow2(_)
Pow2(n) == IF n = 0 THEN 1 ELSE 2 * Pow2(n - 1)

RECURSIVE BitsOf(_)
BitsOf(n) == IF n = 0 THEN 0 ELSE 1 + BitsOf(n \div 2)

RECURSIVE Trim(_)
Trim(a) ==
    IF a = <<>> THEN <<>>
    ELSE IF a[Len(a)] = 0 THEN Trim(SubSeq(a, 1, Len(a) - 1))
    ELSE a

RECURSIVE BigOfInt(_)
BigOfInt(n) == IF n = 0 THEN <<>> ELSE <<n % Limb>> \o BigOfInt(n \div Limb)

Digit(a, i) == IF i <= Len(a) THEN a[i] ELSE 0

RECURSIVE AddFrom(_, _, _, _)
AddFrom(a, b, i, carry) ==
    IF i > Len(a) /\ i > Len(b)
    THEN IF carry = 0 THEN <<>> ELSE <<carry>>
    ELSE LET s == Digit(a, i) + Digit(b, i) + carry
         IN  <<s % Limb>> \o AddFrom(a, b, i + 1, s \div Limb)

BigAdd(a, b) == AddFrom(a, b, 1, 0)

RECURSIVE SubFrom(_, _, _, _)
SubFrom(a, b, i, borrow) ==
    IF i > Len(a) THEN <<>>
    ELSE LET s == a[i] - Digit(b, i) - borrow
         IN  IF s < 0 THEN <<s + Limb>> \o SubFrom(a, b, i + 1, 1)
                      ELSE <<s>> \o SubFrom(a, b, i + 1, 0)

\* a - b, for a >= b
BigSub(a, b) == Trim(SubFrom(a, b, 1, 0))

RECURSIVE MulSmallFrom(_, _, _, _)
MulSmallFrom(a, k, i, carry) ==
    IF i > Len(a) THEN BigOfInt(carry)
    ELSE LET s == a[i] * k + carry
         IN  <<s % Limb>> \o MulSmallFrom(a, k, i + 1, s \div Limb)

\* a * k, for 0 <= k < Limb
BigMulSmall(a, k) == Trim(MulSmallFrom(a, k, 1, 0))

RECURSIVE MulFrom(_, _, _)
MulFrom(a, b, j) ==
    IF j > Len(b) THEN <<>>
    ELSE BigAdd(BigMulSmall(a, b[j]), <<0>> \o MulFrom(a, b, j + 1))

BigMul(a, b) == Trim(MulFrom(a, b, 1))

\* the quotient digits (most significant first) and the remainder of a / k,
\* from digit i down, for 0 < k < Limb
RECURSIVE DivSmallFrom(_, _, _, _)
DivSmallFrom(a, k, i, rem) ==
    IF i = 0 THEN [q |-> <<>>, r |-> rem]
    ELSE LET cur == rem * Limb + a[i]
             rest == DivSmallFrom(a, k, i - 1, cur % k)
         IN  [q |-> Append(rest.q, cur \div k), r |-> rest.r]

BigDivSmall(a, k) ==
    LET d == DivSmallFrom(a, k, Len(a), 0)
    IN  [q |-> Trim(d.q), r |-> d.r]

BitLen(a) == IF a = <<>> THEN 0 ELSE LimbBits * (Len(a) - 1) + BitsOf(a[Len(a)])

\* a * 2^n
BigShl(a, n) ==
    IF a = <<>> THEN <<>>
    ELSE [i \in 1 .. n \div LimbBits |-> 0] \o BigMulSmall(a, Pow2(n % LimbBits))

\* floor(a / 2^n)
BigShr(a, n) ==
    IF n \div LimbBits >= Len(a) THEN <<>>
    ELSE BigDivSmall(SubSeq(a, n \div LimbBits + 1, Len(a)), Pow2(n % LimbBits)).q

\* bit i of a, bit 0 the least significant
BigBit(a, i) == (Digit(a, i \div LimbBits + 1) \div Pow2(i % LimbBits)) % 2

RECURSIVE LessFrom(_, _, _)
LessFrom(a, b, i) ==
    IF i = 0 THEN FALSE
    ELSE IF a[i] # b[i] THEN a[i] < b[i]
    ELSE LessFrom(a, b, i - 1)

BigLess(a, b) ==
    IF Len(a) # Len(b) THEN Len(a) < Len(b) ELSE LessFrom(a, b, Len(a))

\* the double nearest to n * 2^e (n > 0), ties to the even significand
RoundToDouble(n, e) ==
    LET len == BitLen(n)
    IN  IF len <= Precision
        THEN [m |-> BigShl(n, Precision - len), e |-> e - (Precision - len)]
        ELSE LET s == len - Precision
                 q == BigShr(n, s)
                 half == BigBit(n, s - 1) = 1
                 sticky == BigShl(BigShr(n, s - 1), s - 1) # n
                 up == half /\ (sticky \/ BigBit(q, 0) = 1)
                 r == IF up THEN BigAdd(q, <<1>>) ELSE q
             IN  IF BitLen(r) > Precision
                 THEN [m |-> BigShr(r, 1), e |-> e + s + 1]
                 ELSE [m |-> r, e |-> e + s]

\* float(n) of an int n > 0
FloatOfInt(n) == RoundToDouble(BigOfInt(n), 0)

\* a / b of two ints (true division), 0 < a, 0 < b < Limb: the quotient to
\* Precision + 2 bits or more and a last bit that tells a remainder, rounded
FloatDivInt(a, b) ==
    LET k == Precision + 2 + BitsOf(b)
        d == BigDivSmall(BigShl(BigOfInt(a), k), b)
        n == BigAdd(BigShl(d.q, 1), IF d.r = 0 THEN <<>> ELSE <<1>>)
    IN  RoundToDouble(n, 0 - k - 1)

\* x * y
FloatMul(x, y) == RoundToDouble(BigMul(x.m, y.m), x.e + y.e)

\* the significand of x at the exponent e <= x.e
Scaled(x, e) == BigShl(x.m, x.e - e)

MinExp(x, y) == IF x.e < y.e THEN x.e ELSE y.e

\* x + y
FloatAdd(x, y) ==
    RoundToDouble(BigAdd(Scaled(x, MinExp(x, y)), Scaled(y, MinExp(x, y))), MinExp(x, y))

\* x - y, for x > y
FloatSub(x, y) ==
    RoundToDouble(BigSub(Scaled(x, MinExp(x, y)), Scaled(y, MinExp(x, y))), MinExp(x, y))

-----------------------------------------------------------------------------
(* class EMA, in floats *)

NoFloat == [isNone |-> TRUE, m |-> <<>>, e |-> 0]

\* EMA.__init__: self.alpha = 2 / (window + 1), self.value = None
FloatEMA(window) ==
    [window |-> window, alpha |-> FloatDivInt(2, window + 1), value |-> NoFloat]

\* a faulty variant of update: the two weights exchanged
FloatEMA_updateSwapped(self, price) ==
    IF self.value.isNone
    THEN LET v == FloatOfInt(price)
         IN  [self EXCEPT !.value = [isNone |-> FALSE, m |-> v.m, e |-> v.e]]
    ELSE LET old == [m |-> self.value.m, e |-> self.value.e]
             v == FloatAdd(FloatMul(self.alpha, old),
                           FloatMul(FloatSub(FloatOfInt(1), self.alpha),
                                    FloatOfInt(price)))
         IN  [self EXCEPT !.value = [isNone |-> FALSE, m |-> v.m, e |-> v.e]]

\* EMA.update: self.value = price, or
\* self.value = self.alpha * price + (1 - self.alpha) * self.value
FloatEMA_update(self, price) ==
    IF self.value.isNone
    THEN LET v == FloatOfInt(price)
         IN  [self EXCEPT !.value = [isNone |-> FALSE, m |-> v.m, e |-> v.e]]
    ELSE LET old == [m |-> self.value.m, e |-> self.value.e]
             v == FloatAdd(FloatMul(self.alpha, FloatOfInt(price)),
                           FloatMul(FloatSub(FloatOfInt(1), self.alpha), old))
         IN  [self EXCEPT !.value = [isNone |-> FALSE, m |-> v.m, e |-> v.e]]

\* a call ema.update(price)
update(price) ==
    /\ Len(fed) < MaxUpdates
    /\ ema' = FloatEMA_update(ema, price)
    /\ fed' = Append(fed, price)
    /\ UNCHANGED <<paramVars, engineVars, runVars, tmVars, report, merged_data>>

-----------------------------------------------------------------------------
(* ema_trend_strategy *)

ema_windows == <<5, 12, 20>>

WindowSet == {ema_windows[k] : k \in 1 .. Len(ema_windows)}

EmaKeys(instrument) == {<<instrument, p, w>> : p \in {"15m", "1h"}, w \in WindowSet}

NoAttr == [has |-> FALSE, calc |-> <<>>]

\* the hasattr test and the initialisation of the calculators
EmaInit(attr, instrument) ==
    IF ~attr.has
    THEN [has |-> TRUE, calc |-> [k \in EmaKeys(instrument) |-> EMA(k[3])]]
    ELSE attr

\* a faulty variant of the update loop: the 15m and the 1h calculator of a
\* window are one instance, which so is updated twice
EmaUpdateAllShared(attr, instrument, price) ==
    [attr EXCEPT !.calc = [k \in DOMAIN attr.calc |->
        IF k \in EmaKeys(instrument)
        THEN EMA_update(EMA_update(attr.calc[k], price), price)
        ELSE attr.calc[k]]]

\* the update loop over ema_windows
EmaUpdateAll(attr, instrument, price) ==
    [attr EXCEPT !.calc = [k \in DOMAIN attr.calc |->
        IF k \in EmaKeys(instrument) THEN EMA_update(attr.calc[k], price)
                                     ELSE attr.calc[k]]]

\* major_trend / minor_trend: 'bull', 'bear' or None
Trend(fast, slow) ==
    IF RatLess(slow, fast) THEN "bull"
    ELSE IF RatLess(fast, slow) THEN "bear"
    ELSE "None"

\* the locals at the top of the trading logic
InitialLocals ==
    [signal |-> "None", position |-> 0, stop_loss |-> None,
     take_profit |-> None, highest_price |-> None, lowest_price |-> None]

\* the bull and bear branches, from the locals l
TierLogic(l, major_trend, minor_trend, price) ==
    IF major_trend = "bull" /\ minor_trend = "bull" THEN
        IF l.position = 0 THEN
            [l EXCEPT !.signal = "buy", !.position = 2,
                      !.stop_loss = price * 9, !.highest_price = price]
        ELSE IF l.position = 2 /\ Tenths(price) > l.highest_price * 11 THEN
            [l EXCEPT !.signal = "buy", !.position = 5,
                      !.stop_loss = l.highest_price * 9, !.highest_price = price]
        ELSE IF l.position = 5 /\ Tenths(price) > l.highest_price * 12 THEN
            [l EXCEPT !.signal = "buy", !.position = 10,
                      !.stop_loss = l.highest_price * 9, !.highest_price = price]
        ELSE l
    ELSE IF major_trend = "bear" /\ minor_trend = "bear" THEN
        IF l.position = 0 THEN
            [l EXCEPT !.signal = "sell", !.position = 2,
                      !.stop_loss = price * 11, !.lowest_price = price]
        ELSE IF l.position = 2 /\ Tenths(price) < l.lowest_price * 9 THEN
            [l EXCEPT !.signal = "sell", !.position = 5,
                      !.stop_loss = l.lowest_price * 11, !.lowest_price = price]
        ELSE IF l.position = 5 /\ Tenths(price) < l.lowest_price * 8 THEN
            [l EXCEPT !.signal = "sell", !.position = 10,
                      !.stop_loss = l.lowest_price * 11, !.lowest_price = price]
        ELSE l
    ELSE l

\* a faulty variant of the check: a signal of the tier logic is kept
StopLossCheckUnlessSignal(l, price) ==
    IF l.signal = "None" /\ l.position > 0 /\ Tenths(price) <= l.stop_loss
    THEN [l EXCEPT !.signal = "close"]
    ELSE l

\* the stop-loss check at the end
StopLossCheck(l, price) ==
    IF l.position > 0 /\ Tenths(price) <= l.stop_loss
    THEN [l EXCEPT !.signal = "close"]
    ELSE l

\* the locals of a call that has not happened
NoFrame ==
    [signal |-> "None", position |-> 0, stop_loss |-> None,
     highest_price |-> None, lowest_price |-> None,
     major_trend |-> "None", minor_trend |-> "None", price |-> None, time |-> 0]

\* One call ema_trend_strategy(row, instrument): the attribute afterwards and
\* the locals at the return statement (signal is the value returned), or the
\* KeyError of reading a column the row does not have.
ema_trend_strategy(row, instrument, attr) ==
    IF <<instrument, "15m">> \notin DOMAIN row.close
    THEN [error |-> "KeyError", attr |-> attr, locals |-> NoFrame]
    ELSE
    LET price == row.close[<<instrument, "15m">>]
        a1 == EmaInit(attr, instrument)
        a2 == EmaUpdateAll(a1, instrument, price)
        ema_5_15m  == a2.calc[<<instrument, "15m", 5>>].value
        ema_12_15m == a2.calc[<<instrument, "15m", 12>>].value
        ema_12_1h  == a2.calc[<<instrument, "1h", 12>>].value
        ema_20_1h  == a2.calc[<<instrument, "1h", 20>>].value
        major_trend == Trend(ema_12_1h, ema_20_1h)
        minor_trend == Trend(ema_5_15m, ema_12_15m)
        l1 == TierLogic(InitialLocals, major_trend, minor_trend, price)
        l2 == StopLossCheck(l1, price)
    IN  [error |-> "None", attr |-> a2,
         locals |-> [signal |-> l2.signal, position |-> l2.position,
                     stop_loss |-> l2.stop_loss,
                     highest_price |-> l2.highest_price,
                     lowest_price |-> l2.lowest_price,
                     major_trend |-> major_trend, minor_trend |-> minor_trend,
                     price |-> price, time |-> row.time]]

-----------------------------------------------------------------------------
(* Signals.  A strategy returns None, a bare action string (the reference  *)
(* strategy) or a mapping instrument -> action (what run_backtest reads    *)
(* with signal.items()); acts lists a mapping's items in order.            *)

NoneSig == [kind |-> "none", action |-> "", acts |-> <<>>]
StrSig(a) == [kind |-> "str", action |-> a, acts |-> <<>>]
MapSig(items) == [kind |-> "map", action |-> "", acts |-> items]

\* the value the reference strategy returns, from its local signal
SigOfLocal(s) == IF s = "None" THEN NoneSig ELSE StrSig(s)

\* Python's truth value of a signal: "if signal:"
Truthy(s) ==
    \/ s.kind = "str" /\ s.action # ""
    \/ s.kind = "map" /\ s.acts # <<>>

-----------------------------------------------------------------------------
(* Strategies a caller may load.  Besides the reference strategy: the      *)
(* stateless strategies that return, for a row, a signal chosen by the     *)
(* row's 1m close price.                                                   *)

UserSignals == {NoneSig, MapSig(<<>>), MapSig(<<<<Instrument, "buy">>>>)}
UserRules == [Prices -> UserSignals]

NoStrategy == [name |-> "None", rule |-> <<>>]
ReferenceStrategy == [name |-> "ema_trend_strategy", rule |-> <<>>]
UserStrategy(rule) == [name |-> "user", rule |-> rule]
Strategies == {ReferenceStrategy} \cup {UserStrategy(r) : r \in UserRules}

\* self.strategy_function(row, **strategy_params): the exception raised or
\* "None", the signal returned, the attribute of ema_trend_strategy
\* afterwards, and the callee's locals
CallStrategy(fn, row, attr) ==
    IF fn.name = "None"
    THEN [error |-> "TypeError", signal |-> NoneSig, attr |-> attr, frame |-> NoFrame]
    ELSE IF fn.name = "ema_trend_strategy"
    THEN LET r == ema_trend_strategy(row, Instrument, attr)
         IN  [error |-> r.error, signal |-> SigOfLocal(r.locals.signal),
              attr |-> r.attr, frame |-> r.locals]
    ELSE IF <<Instrument, "1m">> \notin DOMAIN row.close
    THEN [error |-> "KeyError", signal |-> NoneSig, attr |-> attr, frame |-> NoFrame]
    ELSE [error |-> "None", signal |-> fn.rule[row.close[<<Instrument, "1m">>]],
          attr |-> attr, frame |-> NoFrame]

-----------------------------------------------------------------------------
(* StrategyEngine *)

\* a table row: its timestamp and its close columns, keyed (instrument, period)
Row(t, p) ==
    [time |-> t, close |-> (<<Instrument, "1m">> :> p) @@ (<<Instrument, "15m">> :> p)]

RECURSIVE SeqsUpTo(_, _)
SeqsUpTo(S, n) ==
    IF n = 0 THEN {<<>>}
    ELSE LET shorter == SeqsUpTo(S, n - 1)
         IN  shorter \cup {Append(q, x) : q \in {r \in shorter : Len(r) = n - 1}, x \in S}

\* the tables: rows 1..n in ascending timestamp order, n <= MaxRows
Tables == {[i \in 1 .. Len(q) |-> Row(i, q[i])] : q \in SeqsUpTo(Prices, MaxRows)}

\* a faulty variant of the filter: the end of the range left out
FilteredEndExclusive(table, start, end) ==
    SelectSeq(table, LAMBDA row : start <= row.time /\ row.time < end)

\* data.loc[start_time:end_time]: the rows with start <= time <= end, in order
Filtered(table, start, end) ==
    SelectSeq(table, LAMBDA row : start <= row.time /\ row.time <= end)

\* a faulty variant of the test: the check left out
StrategyMissingNever(fn) == FALSE

\* the test "self.strategy_function is None"
StrategyMissing(fn) == fn.name = "None"

\* what a finished call of run_strategy leaves for its caller
Outcome(err) ==
    [fn |-> strategy_function, error |-> err,
     signals |-> IF err = "None" THEN signals ELSE <<>>,
     calls |-> IF err = "None" THEN calls ELSE <<>>]

\* StrategyEngine.load_strategy (a strategy is loaded before the first run)
load_strategy(fn) ==
    /\ pc = "idle"
    /\ returned = <<>>
    /\ strategy_function' = fn
    /\ UNCHANGED <<paramVars, emaVars, ema_calculator, runVars, tmVars, report, merged_data>>

\* run_strategy called on the table data: the strategy_function test (a
\* ValueError goes to the caller), then signals = [] and the filter
RS_Call ==
    /\ pc = "idle"
    /\ Len(returned) < MaxCalls
    /\ IF StrategyMissing(strategy_function)
       THEN /\ returned' = Append(returned,
                   [fn |-> strategy_function, error |-> "ValueError",
                    signals |-> <<>>, calls |-> <<>>])
            /\ UNCHANGED <<pc, cursor, signals, calls>>
       ELSE /\ pc' = "rows"
            /\ cursor' = 0
            /\ signals' = <<>>
            /\ calls' = <<>>
            /\ UNCHANGED returned
    /\ UNCHANGED <<paramVars, emaVars, engineVars, data, error, frame, ticks, tmVars,
                   report, merged_data>>

\* run_strategy, one iteration of the loop over filtered_data.iterrows()
RS_Row ==
    /\ pc = "rows"
    /\ ticks < MaxTicks
    /\ LET rows == Filtered(data, start_time, end_time)
       IN  /\ cursor < Len(rows)
           /\ LET row == rows[cursor + 1]
                  r == CallStrategy(strategy_function, row, ema_calculator)
              IN  IF r.error # "None"
                  THEN /\ pc' = "raised"
                       /\ error' = r.error
                       /\ UNCHANGED <<ema_calculator, frame, signals, calls, cursor>>
                  ELSE /\ ema_calculator' = r.attr
                       /\ frame' = r.frame
                       /\ signals' = IF Truthy(r.signal)
                                     THEN Append(signals, <<row.time, r.signal>>)
                                     ELSE signals
                       /\ calls' = Append(calls, <<row.time, r.signal>>)
                       /\ cursor' = cursor + 1
                       /\ UNCHANGED <<pc, error>>
    /\ ticks' = ticks + 1
    /\ UNCHANGED <<paramVars, emaVars, strategy_function, data, returned, tmVars,
                   report, merged_data>>

\* run_strategy, return signals
RS_Return ==
    /\ pc = "rows"
    /\ cursor = Len(Filtered(data, start_time, end_time))
    /\ returned' = Append(returned, Outcome("None"))
    /\ pc' = "idle"
    /\ UNCHANGED <<paramVars, emaVars, engineVars, data, error, cursor, signals, calls,
                   frame, ticks, tmVars, report, merged_data>>

-----------------------------------------------------------------------------
(* TradeManager.  A trade is one dict object, appended to trades_log and   *)
(* stored in positions[instrument]: both hold the same object.  The model  *)
(* keeps the objects in trades_log and lets positions hold, per            *)
(* instrument, the index of its object, so a write through positions is a  *)
(* write to that entry of trades_log.                                      *)

Instruments == {"X", "Y"}
TradePrices == {90, 100, 110}
TradeSignals == {"buy", "sell", "close"}

\* the dict execute_trade builds
Trade(signal, current_time, price, instrument) ==
    [instrument |-> instrument,
     time |-> current_time,
     signal |-> signal,
     price |-> price,
     stop_loss |-> IF signal = "buy" THEN price * 9 ELSE price * 11,
     take_profit |-> None,
     highest_price |-> IF signal = "buy" THEN price ELSE None,
     lowest_price |-> IF signal = "sell" THEN price ELSE None]

\* a faulty variant of the assignment: an instrument keeps the position it has
SetPositionIfAbsent(pos, instrument, k) ==
    [i \in DOMAIN pos \cup {instrument} |-> IF i \in DOMAIN pos THEN pos[i] ELSE k]

\* positions[instrument] = trade, on a dict
SetPosition(pos, instrument, k) ==
    [i \in DOMAIN pos \cup {instrument} |-> IF i = instrument THEN k ELSE pos[i]]

\* Python's max(a, b) and min(a, b): b when b > a (b < a), else a; every
\* comparison with NaN is false
Max(a, b) == IF a # NaN /\ b # NaN /\ b > a THEN b ELSE a
Min(a, b) == IF a # NaN /\ b # NaN /\ b < a THEN b ELSE a

\* a faulty variant of the loop body: the extreme follows the current price
RatchetFollowsPrice(position, current_price) ==
    IF position.signal = "buy" THEN
        [position EXCEPT !.highest_price = current_price,
                         !.stop_loss = current_price * 9]
    ELSE IF position.signal = "sell" THEN
        [position EXCEPT !.lowest_price = current_price,
                         !.stop_loss = current_price * 11]
    ELSE position

\* the body of update_stop_loss's loop, for one position object
Ratchet(position, current_price) ==
    IF position.signal = "buy" THEN
        LET h == Max(position.highest_price, current_price)
        IN  [position EXCEPT !.highest_price = h, !.stop_loss = h * 9]
    ELSE IF position.signal = "sell" THEN
        LET l == Min(position.lowest_price, current_price)
        IN  [position EXCEPT !.lowest_price = l, !.stop_loss = l * 11]
    ELSE position

\* trades_log after update_stop_loss(current_time, price_data), where
\* price_data[i] is the column f"{i}_1m_close" of the row
StopLossUpdated(log, pos, price_data) ==
    [k \in 1 .. Len(log) |->
        IF \E i \in DOMAIN pos : pos[i] = k
        THEN Ratchet(log[k], price_data[log[k].instrument])
        ELSE log[k]]

\* TradeManager.execute_trade, on trades_log and positions
ExecuteTrade(signal, current_time, price, instrument) ==
    /\ trades_log' = Append(trades_log, Trade(signal, current_time, price, instrument))
    /\ positions' = SetPosition(positions, instrument, Len(trades_log) + 1)

\* a call of TradeManager.execute_trade
execute_trade(signal, current_time, price, instrument) ==
    /\ Len(trades_log) < MaxTrades
    /\ ExecuteTrade(signal, current_time, price, instrument)
    /\ UNCHANGED <<paramVars, emaVars, engineVars, runVars, report, merged_data>>

\* a call of TradeManager.update_stop_loss
update_stop_loss(current_time, price_data) ==
    /\ trades_log' = StopLossUpdated(trades_log, positions, price_data)
    /\ UNCHANGED <<paramVars, emaVars, engineVars, runVars, positions, report, merged_data>>

-----------------------------------------------------------------------------
(* ResultAnalyzer *)

initial_balance == 100000

NoReport == [status |-> "none", trades |-> 0, initial_balance |-> 0,
             final_balance |-> Rat(0, 1), total_return |-> Rat(0, 1)]

\* the balance after replaying log[k..], or "KeyError" when a trade read
\* for its 'close_price' has no such key
RECURSIVE Replay(_, _, _)
Replay(log, k, balance) ==
    IF k > Len(log) THEN [error |-> "None", balance |-> balance]
    ELSE IF log[k].signal \in {"buy", "sell"} THEN
        IF "close_price" \notin DOMAIN log[k]
        THEN [error |-> "KeyError", balance |-> balance]
        ELSE IF log[k].signal = "buy"
        THEN Replay(log, k + 1,
                    Rat(balance.n * log[k].close_price, balance.d * log[k].price))
        ELSE Replay(log, k + 1,
                    Rat(balance.n * log[k].price, balance.d * log[k].close_price))
    ELSE Replay(log, k + 1, balance)

\* ResultAnalyzer(trades_log).generate_report(): {} ("empty"), a KeyError, or
\* the report dict; trades is the length of the log it replayed
GenerateReport(log) ==
    IF log = <<>> THEN [NoReport EXCEPT !.status = "empty"]
    ELSE LET r == Replay(log, 1, Rat(initial_balance, 1))
         IN  IF r.error # "None"
             THEN [NoReport EXCEPT !.status = r.error, !.trades = Len(log)]
             ELSE [status |-> "ok", trades |-> Len(log),
                   initial_balance |-> initial_balance,
                   final_balance |-> r.balance,
                   total_return |->
                       Rat(r.balance.n - initial_balance * r.balance.d,
                           initial_balance * r.balance.d)]

generate_report ==
    /\ report' = GenerateReport(trades_log)
    /\ UNCHANGED <<paramVars, emaVars, engineVars, runVars, tmVars, merged_data>>

-----------------------------------------------------------------------------
(* DataHandler.  A series is a sequence of bars [time, close] in ascending *)
(* time order; a frame has its columns, keyed (instrument, period), and    *)
(* its rows in index order.  Of a bar's fields only close is kept.         *)

NoneFrame == [isNone |-> TRUE, cols |-> {}, rows |-> <<>>]

\* the elements of a set of numbers in ascending order
RECURSIVE Ascending(_)
Ascending(S) ==
    IF S = {} THEN <<>>
    ELSE LET m == CHOOSE x \in S : \A y \in S : x <= y
         IN  <<m>> \o Ascending(S \ {m})

RowTimes(rows) == {rows[k].time : k \in 1 .. Len(rows)}

\* the row of rows with timestamp t
RowAt(rows, t) == rows[CHOOSE k \in 1 .. Len(rows) : rows[k].time = t]

\* df.add_prefix(f"{instrument}_{period}_")
AddPrefix(series, instrument, period) ==
    [isNone |-> FALSE,
     cols |-> {<<instrument, period>>},
     rows |-> [k \in 1 .. Len(series) |->
                  [time |-> series[k].time,
                   close |-> (<<instrument, period>> :> series[k].close)]]]

\* a faulty variant of the join: a left join, the index of a alone
OuterJoinLeft(a, b) ==
    LET index == Ascending(RowTimes(a.rows))
        Cell(f, t, c) == IF t \in RowTimes(f.rows) THEN RowAt(f.rows, t).close[c]
                                                    ELSE NaN
    IN  [isNone |-> FALSE,
         cols |-> a.cols \cup b.cols,
         rows |-> [k \in 1 .. Len(index) |->
                      [time |-> index[k],
                       close |-> [c \in a.cols \cup b.cols |->
                                     IF c \in a.cols THEN Cell(a, index[k], c)
                                                     ELSE Cell(b, index[k], c)]]]]

\* a.join(b, how='outer'): the sorted union of the indexes, NaN where a
\* frame has no row
OuterJoin(a, b) ==
    LET index == Ascending(RowTimes(a.rows) \cup RowTimes(b.rows))
        Cell(f, t, c) == IF t \in RowTimes(f.rows) THEN RowAt(f.rows, t).close[c]
                                                    ELSE NaN
    IN  [isNone |-> FALSE,
         cols |-> a.cols \cup b.cols,
         rows |-> [k \in 1 .. Len(index) |->
                      [time |-> index[k],
                       close |-> [c \in a.cols \cup b.cols |->
                                     IF c \in a.cols THEN Cell(a, index[k], c)
                                                     ELSE Cell(b, index[k], c)]]]]

\* the (instrument, period) pairs in the order of merge_data's nested loops
Pairs(insts, pers) ==
    [k \in 1 .. Len(insts) * Len(pers) |->
        <<insts[((k - 1) \div Len(pers)) + 1], pers[((k - 1) % Len(pers)) + 1]>>]

RECURSIVE MergeFrom(_, _, _, _)
MergeFrom(pairs, k, merged_df, feed) ==
    IF k > Len(pairs) THEN merged_df
    ELSE LET df == AddPrefix(feed[pairs[k]], pairs[k][1], pairs[k][2])
         IN  MergeFrom(pairs, k + 1,
                       IF merged_df.isNone THEN df ELSE OuterJoin(merged_df, df),
                       feed)

\* DataHandler.merge_data(instruments, periods)
MergeData(insts, pers, feed) == MergeFrom(Pairs(insts, pers), 1, NoneFrame, feed)

\* a call merge_data(instruments, periods) on the data source datafeed; the
\* value it returns is kept in merged_data
merge_data ==
    /\ pc = "idle"
    /\ merged_data' = MergeData(instruments, periods, datafeed)
    /\ pc' = "merged"
    /\ UNCHANGED <<paramVars, emaVars, engineVars, data, error, cursor, signals,
                   returned, calls, frame, ticks, tmVars, report>>

-----------------------------------------------------------------------------
(* BacktestRunner.run_backtest *)

\* the iterations of the two nested loops over signals and signal.items():
\* one per item, or the AttributeError of a signal that has no items()
RECURSIVE TradeSteps(_, _)
TradeSteps(sigs, k) ==
    IF k > Len(sigs) THEN <<>>
    ELSE LET time == sigs[k][1]
             sig == sigs[k][2]
         IN  IF sig.kind # "map"
             THEN <<[error |-> "AttributeError", time |-> time,
                     instrument |-> "", action |-> ""]>>
             ELSE [j \in 1 .. Len(sig.acts) |->
                      [error |-> "None", time |-> time,
                       instrument |-> sig.acts[j][1], action |-> sig.acts[j][2]]]
                  \o TradeSteps(sigs, k + 1)

\* merged_data = self.data_handler.merge_data(self.instruments, self.periods)
BT_Merge ==
    /\ pc = "idle"
    /\ merged_data' = MergeData(instruments, periods, datafeed)
    /\ pc' = "merged"
    /\ UNCHANGED <<paramVars, emaVars, engineVars, data, error, cursor, signals,
                   returned, calls, frame, ticks, tmVars, report>>

\* the call of run_strategy on merged_data, up to its loop
BT_RunStrategy ==
    /\ pc = "merged"
    /\ IF StrategyMissing(strategy_function)
       THEN /\ pc' = "raised"
            /\ error' = "ValueError"
            /\ UNCHANGED <<data, cursor, signals, calls>>
       ELSE IF merged_data.isNone
       THEN /\ pc' = "raised"
            /\ error' = "AttributeError"
            /\ signals' = <<>>
            /\ UNCHANGED <<data, cursor, calls>>
       ELSE /\ pc' = "rows"
            /\ data' = merged_data.rows
            /\ cursor' = 0
            /\ signals' = <<>>
            /\ calls' = <<>>
            /\ UNCHANGED error
    /\ UNCHANGED <<paramVars, emaVars, engineVars, returned, frame, ticks, tmVars,
                   report, merged_data>>

\* run_strategy returns signals to run_backtest
BT_Return ==
    /\ pc = "rows"
    /\ cursor = Len(Filtered(data, start_time, end_time))
    /\ returned' = Append(returned, Outcome("None"))
    /\ pc' = "trades"
    /\ cursor' = 0
    /\ UNCHANGED <<paramVars, emaVars, engineVars, data, error, signals, calls, frame,
                   ticks, tmVars, report, merged_data>>

\* one iteration of "for instrument, action in signal.items()"
BT_Trade ==
    /\ pc = "trades"
    /\ LET steps == TradeSteps(signals, 1)
       IN  /\ cursor < Len(steps)
           /\ LET s == steps[cursor + 1]
                  row == RowAt(merged_data.rows, s.time)
              IN  IF s.error # "None"
                  THEN /\ pc' = "raised"
                       /\ error' = s.error
                       /\ UNCHANGED <<cursor, tmVars>>
                  ELSE IF <<s.instrument, "1m">> \notin DOMAIN row.close
                  THEN /\ pc' = "raised"
                       /\ error' = "KeyError"
                       /\ UNCHANGED <<cursor, tmVars>>
                  ELSE /\ ExecuteTrade(s.action, s.time,
                                       row.close[<<s.instrument, "1m">>], s.instrument)
                       /\ cursor' = cursor + 1
                       /\ UNCHANGED <<pc, error>>
    /\ UNCHANGED <<paramVars, emaVars, engineVars, data, signals, returned, calls,
                   frame, ticks, report, merged_data>>

\* the loop over the signals is over
BT_TradesDone ==
    /\ pc = "trades"
    /\ cursor = Len(TradeSteps(signals, 1))
    /\ pc' = "stops"
    /\ cursor' = 0
    /\ UNCHANGED <<paramVars, emaVars, engineVars, data, error, signals, returned,
                   calls, frame, ticks, tmVars, report, merged_data>>

\* one iteration of the loop that calls update_stop_loss(idx, row)
BT_UpdateStop ==
    /\ pc = "stops"
    /\ LET rows == Filtered(merged_data.rows, start_time, end_time)
       IN  /\ cursor < Len(rows)
           /\ LET row == rows[cursor + 1]
              IN  IF \E i \in DOMAIN positions : <<i, "1m">> \notin DOMAIN row.close
                  THEN /\ pc' = "raised"
                       /\ error' = "KeyError"
                       /\ UNCHANGED <<cursor, trades_log>>
                  ELSE /\ trades_log' = StopLossUpdated(trades_log, positions,
                              [i \in DOMAIN positions |-> row.close[<<i, "1m">>]])
                       /\ cursor' = cursor + 1
                       /\ UNCHANGED <<pc, error>>
    /\ UNCHANGED <<paramVars, emaVars, engineVars, data, signals, returned, calls,
                   frame, ticks, positions, report, merged_data>>

\* run_backtest returns
BT_Done ==
    /\ pc = "stops"
    /\ cursor = Len(Filtered(merged_data.rows, start_time, end_time))
    /\ pc' = "done"
    /\ UNCHANGED <<paramVars, emaVars, engineVars, data, error, cursor, signals,
                   returned, calls, frame, ticks, tmVars, report, merged_data>>

-----------------------------------------------------------------------------
(* Specifications *)

\* the objects after construction, nothing run yet
Fresh ==
    /\ strategy_function = NoStrategy
    /\ ema_calculator = NoAttr
    /\ pc = "idle"
    /\ error = "None"
    /\ cursor = 0
    /\ signals = <<>>
    /\ returned = <<>>
    /\ calls = <<>>
    /\ frame = NoFrame
    /\ ticks = 0
    /\ trades_log = <<>>
    /\ positions = <<>>
    /\ report = NoReport
    /\ merged_data = NoneFrame
    /\ fed = <<>>

\* a StrategyEngine, a table and a time range to run it on
Init ==
    /\ Fresh
    /\ ema = FloatEMA(ema_windows[1])
    /\ instruments = <<>>
    /\ periods = <<>>
    /\ datafeed = <<>>
    /\ data \in Tables
    /\ start_time \in Times
    /\ end_time \in Times

Next ==
    \/ \E fn \in Strategies : load_strategy(fn)
    \/ RS_Call
    \/ RS_Row
    \/ RS_Return

Spec == Init /\ [][Next]_vars

\* a TradeManager and a ResultAnalyzer on its log, driven call by call; the
\* k-th trade is stamped with time k
InitTM ==
    /\ Fresh
    /\ ema = FloatEMA(ema_windows[1])
    /\ instruments = <<>>
    /\ periods = <<>>
    /\ datafeed = <<>>
    /\ data = <<>>
    /\ start_time = 1
    /\ end_time = 1

NextTM ==
    \/ \E s \in TradeSignals, p \in TradePrices, i \in Instruments :
           execute_trade(s, Len(trades_log) + 1, p, i)
    \/ \E pd \in [Instruments -> TradePrices \cup {NaN}] :
           update_stop_loss(Len(trades_log) + 1, pd)
    \/ generate_report

SpecTM == InitTM /\ [][NextTM]_vars

\* the data source of a back-test: the 1m and 15m series of the instrument,
\* bars at times 1..n with the closes q
Feed(q) ==
    [key \in {Instrument} \X {"1m", "15m"} |->
        [k \in 1 .. Len(q) |-> [time |-> k, close |-> q[k]]]]

PeriodLists == {<<>>, <<"1m">>, <<"15m">>, <<"1m", "15m">>}

\* a BacktestRunner after construction and set_parameters
InitBT ==
    /\ Fresh
    /\ ema = FloatEMA(ema_windows[1])
    /\ instruments = <<Instrument>>
    /\ periods \in PeriodLists
    /\ datafeed \in {Feed(q) : q \in SeqsUpTo(Prices, MaxRows)}
    /\ data = <<>>
    /\ start_time \in Times
    /\ end_time \in Times

NextBT ==
    \/ \E fn \in Strategies : load_strategy(fn)
    \/ BT_Merge
    \/ BT_RunStrategy
    \/ RS_Row
    \/ BT_Return
    \/ BT_Trade
    \/ BT_TradesDone
    \/ BT_UpdateStop
    \/ BT_Done

SpecBT == InitBT /\ [][NextBT]_vars

\* the close of the bar of series (instrument, period) at time t: a value
\* that tells the series and the bar
BarClose(key, t) ==
    (IF key[1] = Instrument THEN 0 ELSE 20) + (IF key[2] = "1m" THEN 0 ELSE 10) + t

\* the series of (instrument, period) with bars at the times S, in time order
SeriesOf(key, S) ==
    LET index == Ascending(S)
    IN  [k \in 1 .. Len(index) |-> [time |-> index[k], close |-> BarClose(key, index[k])]]

InstrumentLists == {<<>>, <<"X">>, <<"X", "Y">>}

\* the (instrument, period) pairs of two lists, as a set
PairSet(insts, pers) ==
    {<<insts[a], pers[b]>> : a \in 1 .. Len(insts), b \in 1 .. Len(pers)}

\* a DataHandler on a data source that holds, for every pair asked for, a
\* series with bars at some of the times
InitDH ==
    /\ Fresh
    /\ ema = FloatEMA(ema_windows[1])
    /\ instruments \in InstrumentLists
    /\ periods \in PeriodLists
    /\ datafeed \in {[key \in PairSet(instruments, periods) |-> SeriesOf(key, S[key])] :
                          S \in [PairSet(instruments, periods) -> SUBSET Times]}
    /\ data = <<>>
    /\ start_time = 1
    /\ end_time = 1

NextDH == merge_data

SpecDH == InitDH /\ [][NextDH]_vars

\* the prices of a stream fed to an EMA
StreamPrices == {3, 15, 100}

\* an EMA of one of the strategy's windows, and the prices it is fed
InitEMA ==
    /\ Fresh
    /\ ema \in {FloatEMA(w) : w \in WindowSet}
    /\ instruments = <<>>
    /\ periods = <<>>
    /\ datafeed = <<>>
    /\ data = <<>>
    /\ start_time = 1
    /\ end_time = 1

NextEMA == \E price \in StreamPrices : update(price)

SpecEMA == InitEMA /\ [][NextEMA]_vars

-----------------------------------------------------------------------------
(* Claims about the reference strategy and run_strategy, under Spec *)

Reference == strategy_function.name = "ema_trend_strategy"

\* the frame holds the locals of a call of the reference strategy
InCall == Reference /\ frame.time # 0

\* the close price of the row with timestamp t
PriceAt(t) == data[t].close[<<Instrument, "15m">>]

\* the stop-loss is crossed adversely: price <= stop for a long position,
\* price >= stop for a short one
AdverseCross(l) ==
    IF l.highest_price # None THEN Tenths(l.price) <= l.stop_loss
                               ELSE Tenths(l.price) >= l.stop_loss

\* C1 (as claimed): on every row where the reference strategy holds a
\* non-flat position, it returns 'close' exactly when the price has crossed
\* the stop-loss adversely (<= stop for long, >= stop for short), and the
\* position is flat after a close.
C1_CloseIffAdverseCross ==
    (InCall /\ frame.position > 0) =>
        /\ (frame.signal = "close") <=> AdverseCross(frame)
        /\ (frame.signal = "close") => frame.position = 0

\* The tier walk the specification describes, replayed over the emitted
\* signals from index k with the position size pos (tenths) and the recorded
\* extreme ext: TRUE when every entry/scale signal is one the walk allows.
RECURSIVE WalkAllows(_, _, _, _)
WalkAllows(sigs, k, pos, ext) ==
    IF k > Len(sigs) THEN TRUE
    ELSE LET t == sigs[k][1]
             a == sigs[k][2].action
             p == PriceAt(t)
         IN  IF a = "close" THEN WalkAllows(sigs, k + 1, 0, None)
             ELSE IF pos = 0 THEN WalkAllows(sigs, k + 1, 2, p)
             ELSE IF pos = 2 /\ a = "buy" /\ Tenths(p) > ext * 11
                  THEN WalkAllows(sigs, k + 1, 5, p)
             ELSE IF pos = 2 /\ a = "sell" /\ Tenths(p) < ext * 9
                  THEN WalkAllows(sigs, k + 1, 5, p)
             ELSE IF pos = 5 /\ a = "buy" /\ Tenths(p) > ext * 12
                  THEN WalkAllows(sigs, k + 1, 10, p)
             ELSE IF pos = 5 /\ a = "sell" /\ Tenths(p) < ext * 8
                  THEN WalkAllows(sigs, k + 1, 10, p)
             ELSE FALSE

\* C2 (as claimed): the reference strategy walks the tiers in order across
\* rows (flat -> 20% -> 50% on a 10% move past the recorded extreme -> 100% on
\* a 20% move past the updated extreme) and emits no tier signal on a row
\* whose threshold is not cleared; the size it carries is 0, 0.2, 0.5 or 1.0.
C2_TiersWalkedInOrder ==
    Reference =>
        /\ WalkAllows(signals, 1, 0, None)
        /\ frame.position \in {0, 2, 5, 10}

\* C4 (as claimed): two calls of run_strategy with the same strategy, table
\* and time range return identical signal sequences.
C4_SecondRunSameSignals ==
    \A a, b \in 1 .. Len(returned) :
        (returned[a].fn = returned[b].fn /\ returned[a].error = "None"
            /\ returned[b].error = "None")
        => returned[a].signals = returned[b].signals

CallPrices(cs) == [k \in 1 .. Len(cs) |-> PriceAt(cs[k][1])]

\* the prices the strategy was called with so far: in the runs that returned
\* and in the running one
RECURSIVE ReturnedPrices(_)
ReturnedPrices(k) ==
    IF k = 0 THEN <<>> ELSE ReturnedPrices(k - 1) \o CallPrices(returned[k].calls)

PricesSoFar ==
    ReturnedPrices(Len(returned)) \o (IF pc = "rows" THEN CallPrices(calls) ELSE <<>>)

\* the EMA of window w of the first n prices of hist, one update a price:
\* the first price, then (2*price + (w-1)*value) / (w+1)
RECURSIVE OneUpdateEach(_, _, _)
OneUpdateEach(w, hist, n) ==
    IF n = 1 THEN Rat(hist[1], 1)
    ELSE LET v == OneUpdateEach(w, hist, n - 1)
         IN  Rat(2 * hist[n] * v.d + (w - 1) * v.n, (w + 1) * v.d)

\* C20: in the reference strategy the 15m and the 1h EMA of a window are fed
\* the same price on every row and hold equal values after every call
\* (fast EMA(12) = slow EMA(12) in particular), each being an instance of
\* its own: each holds the value of one update per row.
C20_FastSlowSameWindowEqual ==
    (Reference /\ ema_calculator.has) =>
        /\ DOMAIN ema_calculator.calc = EmaKeys(Instrument)
        /\ \A w \in WindowSet :
               LET fast == ema_calculator.calc[<<Instrument, "15m", w>>].value
                   slow == ema_calculator.calc[<<Instrument, "1h", w>>].value
                   one == OneUpdateEach(w, PricesSoFar, Len(PricesSoFar))
               IN  /\ fast = slow
                   /\ ~fast.isNone
                   /\ fast.n = one.n /\ fast.d = one.d

\* C20 witness: after calls on rows of different prices the fast and the
\* slow EMA(12) hold one value, which is none of the prices
C20_Witness ==
    /\ Reference /\ ema_calculator.has
    /\ ticks >= 3
    /\ ema_calculator.calc[<<Instrument, "15m", 12>>].value =
           ema_calculator.calc[<<Instrument, "1h", 12>>].value
    /\ ema_calculator.calc[<<Instrument, "1h", 12>>].value.d > 1

\* the rows after the row with timestamp t, as timestamps
After(t) == {u \in 1 .. Len(data) : u > t /\ u <= end_time}

\* C7 (as claimed): after a long entry at price p0 (first signal of the first
\* run), on a path that falls to or below the stop 0.9*p0 and keeps falling,
\* exactly one close is emitted, at the first bar with price <= stop, and
\* nothing after it.
C7_OneCloseThenSilence ==
    (/\ Reference
     /\ returned = <<>>
     /\ pc = "rows"
     /\ cursor = Len(Filtered(data, start_time, end_time))
     /\ signals # <<>>
     /\ signals[1][2].action = "buy")
    => LET t0 == signals[1][1]
           p0 == PriceAt(t0)
           hit == {u \in After(t0) : Tenths(PriceAt(u)) <= 9 * p0}
       IN  (/\ hit # {}
            /\ \A u \in After(t0) : PriceAt(u) < PriceAt(u - 1))
           => LET first == CHOOSE u \in hit : \A v \in hit : u <= v
              IN  Tail(signals) = <<<<first, StrSig("close")>>>>

\* the timestamps of the table within [start_time, end_time]
InRange == {t \in 1 .. Len(data) : start_time <= data[t].time /\ data[t].time <= end_time}

CallTimes(cs) == [k \in 1 .. Len(cs) |-> cs[k][1]]

\* C8 (as claimed): a call of run_strategy that returns has invoked the
\* strategy once per row of [start, end], in ascending order, and returns
\* exactly the (timestamp, signal) pairs of the rows whose signal is not None.
C8_NonNullSignalsReturned ==
    \A a \in 1 .. Len(returned) :
        returned[a].error = "None" =>
            /\ CallTimes(returned[a].calls) = Ascending(InRange)
            /\ returned[a].signals =
                   SelectSeq(returned[a].calls, LAMBDA c : c[2] # NoneSig)

\* C8 (amended): ... and returns exactly the (timestamp, signal) pairs of the
\* rows whose signal is true in Python's sense: not None and not empty.
C8_TruthySignalsReturned ==
    \A a \in 1 .. Len(returned) :
        returned[a].error = "None" =>
            /\ CallTimes(returned[a].calls) = Ascending(InRange)
            /\ returned[a].signals =
                   SelectSeq(returned[a].calls, LAMBDA c : Truthy(c[2]))

\* C8 witness: a call over a proper sub-range has returned, with a signal
\* kept and an empty one dropped
C8_Witness ==
    \E a \in 1 .. Len(returned) :
        /\ returned[a].error = "None"
        /\ Len(returned[a].calls) >= 2
        /\ Len(returned[a].calls) < Len(data)
        /\ returned[a].signals # <<>>
        /\ \E k \in 1 .. Len(returned[a].calls) :
               returned[a].calls[k][2] = MapSig(<<>>)

-----------------------------------------------------------------------------
(* Claims about TradeManager and ResultAnalyzer, under SpecTM *)

\* C3 (as claimed): the trade log is append-only; no step changes a field of
\* a TradeEvent already in trades_log, and the log only grows at its tail.
C3_LogAppendOnly ==
    [][/\ Len(trades_log') >= Len(trades_log)
       /\ \A k \in 1 .. Len(trades_log) : trades_log'[k] = trades_log[k]]_vars

\* C5: the trailing stop never loosens; while an instrument keeps its
\* position object, a long position's highest_price and stop_loss never
\* decrease and a short position's lowest_price and stop_loss never increase
\* (the stop staying 0.9, 1.1 times the extreme), whatever prices, NaN
\* included, update_stop_loss is given.
C5_StopNeverLoosens ==
    [][\A i \in DOMAIN positions :
          (i \in DOMAIN positions' /\ positions'[i] = positions[i]) =>
              LET old == trades_log[positions[i]]
                  new == trades_log'[positions[i]]
              IN  /\ old.signal = "buy" =>
                        /\ new.highest_price >= old.highest_price
                        /\ new.stop_loss >= old.stop_loss
                        /\ new.stop_loss = new.highest_price * 9
                  /\ old.signal = "sell" =>
                        /\ new.lowest_price <= old.lowest_price
                        /\ new.stop_loss <= old.stop_loss
                        /\ new.stop_loss = new.lowest_price * 11]_vars

\* C5 witness: a long position whose stop has been raised by a new high and
\* a short position whose stop has been lowered by a new low
C5_Witness ==
    /\ \E i \in DOMAIN positions :
           LET t == trades_log[positions[i]]
           IN  t.signal = "buy" /\ t.highest_price > t.price
                                /\ t.stop_loss = t.highest_price * 9
    /\ \E i \in DOMAIN positions :
           LET t == trades_log[positions[i]]
           IN  t.signal = "sell" /\ t.lowest_price < t.price
                                 /\ t.stop_loss = t.lowest_price * 11

\* the price p has not cleared the next tier's threshold past the extreme
\* recorded in the open position t
SameTier(t, p) ==
    IF t.signal = "buy" THEN Tenths(p) <= t.highest_price * 11
                        ELSE Tenths(p) >= t.lowest_price * 9

\* C6 (as claimed): execute_trade with an enter signal of the side and tier
\* of the instrument's open position is a no-op; no step appends such a trade
\* (trades_log and positions[instrument] stay as they are).
C6_SecondEnterIsNoOp ==
    [][\A i \in DOMAIN positions :
          LET cur == trades_log[positions[i]]
              new == trades_log'[Len(trades_log')]
          IN  (/\ cur.signal \in {"buy", "sell"}
               /\ Len(trades_log') = Len(trades_log) + 1
               /\ new.instrument = i
               /\ new.signal = cur.signal
               /\ SameTier(cur, new.price))
              => FALSE]_vars

\* the log is one long round trip: an entry at price p and a close at q
RoundTrip(log, p, q) ==
    /\ Len(log) = 2
    /\ log[1].signal = "buy" /\ log[1].price = p
    /\ log[2].signal = "close" /\ log[2].price = q
    /\ log[2].instrument = log[1].instrument

\* C10 (as claimed): generate_report returns {} for an empty log, and for the
\* log of a long entry at p closed at q a report with final_balance
\* 100000*q/p and total_return q/p - 1 (entry 100, close 110: 110000, 0.10).
C10_ReportOfRoundTrip ==
    /\ (report.status # "none" /\ report.trades = 0 /\ trades_log = <<>>)
           => report.status = "empty"
    /\ \A p, q \in TradePrices :
           (report.status # "none" /\ report.trades = 2 /\ RoundTrip(trades_log, p, q))
           => /\ report.status = "ok"
              /\ report.final_balance = Rat(initial_balance * q, p)
              /\ report.total_return = Rat(q - p, p)

\* the instrument's position is flat: there is none, or it is no long or
\* short position and carries no stop_loss and no extreme price
Flat(log, pos, i) ==
    i \in DOMAIN pos =>
        /\ log[pos[i]].signal \notin {"buy", "sell"}
        /\ log[pos[i]].stop_loss = None
        /\ log[pos[i]].highest_price = None
        /\ log[pos[i]].lowest_price = None

\* C16 (as claimed): execute_trade with a close signal appends one close
\* TradeEvent and resets the instrument's position to flat (no long or short
\* position, no stop_loss, no extreme price), and later calls of
\* update_stop_loss change nothing for the instrument.
C16_CloseResetsToFlat ==
    [][/\ (/\ Len(trades_log') > Len(trades_log)
            /\ trades_log'[Len(trades_log')].signal = "close") =>
              /\ Len(trades_log') = Len(trades_log) + 1
              /\ Flat(trades_log', positions', trades_log'[Len(trades_log')].instrument)
       /\ \A i \in DOMAIN positions :
              (/\ trades_log[positions[i]].signal = "close"
               /\ Len(trades_log') = Len(trades_log)) =>
                  /\ positions'[i] = positions[i]
                  /\ trades_log'[positions[i]] = trades_log[positions[i]]]_vars

\* the indexes of the trades of instrument i in the log
TradesOf(log, i) == {k \in 1 .. Len(log) : log[k].instrument = i}

\* C19: after any sequence of execute_trade and update_stop_loss calls,
\* positions has an entry for exactly the instruments that were traded, one
\* each, and positions[i] is the trade appended last for instrument i in
\* trades_log: the same record.
C19_PositionIsLatestTrade ==
    /\ DOMAIN positions = {trades_log[k].instrument : k \in 1 .. Len(trades_log)}
    /\ \A i \in DOMAIN positions :
           /\ positions[i] \in TradesOf(trades_log, i)
           /\ \A k \in TradesOf(trades_log, i) : k <= positions[i]

\* C19 witness: an instrument traded twice whose position is the second
\* trade, with its stop raised by update_stop_loss since
C19_Witness ==
    \E i \in DOMAIN positions :
        /\ Cardinality(TradesOf(trades_log, i)) >= 2
        /\ trades_log[positions[i]].signal = "buy"
        /\ trades_log[positions[i]].highest_price > trades_log[positions[i]].price

-----------------------------------------------------------------------------
(* Claims about run_backtest, under SpecBT *)

\* C9: with no strategy loaded, run_backtest ends in run_strategy's
\* ValueError before any row is visited, with the trade log and the
\* positions empty.
C9_NoStrategyFailsFirst ==
    (strategy_function = NoStrategy /\ pc \notin {"idle", "merged"}) =>
        /\ pc = "raised"
        /\ error = "ValueError"
        /\ ticks = 0
        /\ calls = <<>>
        /\ trades_log = <<>>
        /\ DOMAIN positions = {}

\* C9 witness: the ValueError was raised on a table with rows in the range
C9_Witness ==
    /\ strategy_function = NoStrategy
    /\ pc = "raised"
    /\ error = "ValueError"
    /\ ~merged_data.isNone
    /\ Filtered(merged_data.rows, start_time, end_time) # <<>>

\* C14 (as claimed): run_backtest is one sequential pass; the strategy
\* evaluation, the trade execution and the trailing-stop update of a row are
\* done before any step reads a later row.  So a trade of row r is executed
\* when the strategy has read no row after r, and the stop update of row r
\* is made when no row after r has been read or traded.
C14_OneSequentialPass ==
    [][/\ Len(trades_log') > Len(trades_log) =>
             \A k \in 1 .. Len(calls) :
                 calls[k][1] <= trades_log'[Len(trades_log')].time
       /\ (pc = "stops" /\ cursor' = cursor + 1) =>
             LET row == Filtered(merged_data.rows, start_time, end_time)[cursor + 1]
             IN  /\ \A k \in 1 .. Len(calls) : calls[k][1] <= row.time
                 /\ \A k \in 1 .. Len(trades_log) : trades_log[k].time <= row.time]_vars

\* the 1m closes of instrument i on the rows of the range from time t on
ClosesSince(i, t) ==
    LET rows == Filtered(merged_data.rows, start_time, end_time)
    IN  {rows[k].close[<<i, "1m">>] : k \in {j \in 1 .. Len(rows) : rows[j].time >= t}}

\* C15 (as claimed): after run_backtest an open long position's
\* highest_price is the maximum price over the rows from its entry timestamp
\* onward (a short's lowest_price the minimum), never a price of a row before
\* the entry, and its stop_loss is 0.9 (1.1) times that extreme.
C15_ExtremeSinceEntry ==
    pc = "done" =>
        \A i \in DOMAIN positions :
            LET t == trades_log[positions[i]]
                since == ClosesSince(i, t.time)
            IN  /\ t.signal = "buy" =>
                      /\ t.highest_price \in since
                      /\ \A p \in since : p <= t.highest_price
                      /\ t.stop_loss = t.highest_price * 9
                /\ t.signal = "sell" =>
                      /\ t.lowest_price \in since
                      /\ \A p \in since : p >= t.lowest_price
                      /\ t.stop_loss = t.lowest_price * 11

\* the (time, instrument, action) signals a list of (time, signal) pairs
\* holds, in order: one per item of a mapping, one for an action string of
\* the reference strategy
RECURSIVE Emitted(_, _)
Emitted(sigs, k) ==
    IF k > Len(sigs) THEN <<>>
    ELSE LET time == sigs[k][1]
             sig == sigs[k][2]
         IN  (IF sig.kind = "str"
              THEN <<[time |-> time, instrument |-> Instrument, action |-> sig.action]>>
              ELSE [j \in 1 .. Len(sig.acts) |->
                       [time |-> time, instrument |-> sig.acts[j][1],
                        action |-> sig.acts[j][2]]])
             \o Emitted(sigs, k + 1)

\* C17 (as claimed): every non-null signal the strategy emits during
\* run_backtest results in a TradeEvent appended to the trade log, in
\* timestamp order, as many TradeEvents as emitted (instrument, action)
\* signals, for the reference strategy as well.  (Stated for a period list
\* with the 1m series, whose close is the trade price.)
C17_EverySignalTraded ==
    (/\ returned # <<>>
     /\ pc \in {"raised", "stops", "done"}
     /\ \E k \in 1 .. Len(periods) : periods[k] = "1m") =>
        LET emitted == Emitted(returned[1].signals, 1)
        IN  /\ pc # "raised"
            /\ Len(trades_log) = Len(emitted)
            /\ \A k \in 1 .. Len(trades_log) :
                   /\ trades_log[k].time = emitted[k].time
                   /\ trades_log[k].instrument = emitted[k].instrument
                   /\ trades_log[k].signal = emitted[k].action
            /\ \A k \in 1 .. Len(trades_log) - 1 :
                   trades_log[k].time <= trades_log[k + 1].time

-----------------------------------------------------------------------------
(* Claims about DataHandler.merge_data, under SpecDH *)

\* C11 (as claimed): merge_data fails with a configuration error when the
\* instrument list or the period list is empty; it never returns a result
\* for such a call.
C11_EmptySetFails ==
    (instruments = <<>> \/ periods = <<>>) => pc # "merged"

\* the timestamps of a series of the data source
SeriesTimes(series) == {series[k].time : k \in 1 .. Len(series)}

\* C12: the table merge_data returns for non-empty lists has one row per
\* timestamp of the union of the timestamps of all the series, and in each
\* row a series' column is null when the series has no bar at that timestamp
\* and holds that bar's value when it has one.
C12_UnionIndexNullWhereAbsent ==
    (pc = "merged" /\ instruments # <<>> /\ periods # <<>>) =>
        LET keys == PairSet(instruments, periods)
            stamps == UNION {SeriesTimes(datafeed[key]) : key \in keys}
            rows == merged_data.rows
        IN  /\ ~merged_data.isNone
            /\ RowTimes(rows) = stamps
            /\ Len(rows) = Cardinality(stamps)
            /\ \A r \in 1 .. Len(rows) :
                   /\ DOMAIN rows[r].close = keys
                   /\ \A key \in keys :
                          IF rows[r].time \in SeriesTimes(datafeed[key])
                          THEN \E k \in 1 .. Len(datafeed[key]) :
                                  /\ datafeed[key][k].time = rows[r].time
                                  /\ rows[r].close[key] = datafeed[key][k].close
                          ELSE rows[r].close[key] = NaN

\* C12 witness: two series A and B merged, A with bars at the first and the
\* second timestamp only, B at the second and the last only: the first row
\* has B null, the last row has A null, the second has both values
C12_Witness ==
    /\ pc = "merged"
    /\ Len(merged_data.rows) = MaxRows
    /\ \E A, B \in merged_data.cols :
           LET first == merged_data.rows[1]
               second == merged_data.rows[2]
               last == merged_data.rows[MaxRows]
           IN  /\ first.close[A] # NaN /\ first.close[B] = NaN
               /\ second.close[A] # NaN /\ second.close[B] # NaN
               /\ last.close[A] = NaN /\ last.close[B] # NaN

-----------------------------------------------------------------------------
(* Claims about the class EMA, under SpecEMA *)

\* the value of an EMA object, a float
Value(obj) == [m |-> obj.value.m, e |-> obj.value.e]

\* the int n as a natural number at the exponent e <= 0
IntAtExp(n, e) == BigShl(BigOfInt(n), 0 - e)

Constant(stream) == \A k \in 1 .. Len(stream) : stream[k] = stream[1]

\* the natural numbers a and b differ by b / 2^44 at most: a few roundings
\* of doubles apart
Within(a, b) ==
    LET d == IF BigLess(a, b) THEN BigSub(b, a) ELSE BigSub(a, b)
    IN  ~BigLess(b, BigShl(d, 44))

\* C13 (as claimed): an EMA has alpha = 2/(window+1); its value after the
\* first update equals the first price; every later update sets
\* value = alpha*price + (1-alpha)*value; and on a constant price stream the
\* value equals that price after every update.
C13_ConstantStreamExact ==
    [][fed' # fed =>
          LET price == fed'[Len(fed')]
          IN  /\ ema'.alpha = FloatDivInt(2, ema.window + 1)
              /\ ema.value.isNone => Value(ema') = FloatOfInt(price)
              /\ ~ema.value.isNone =>
                     Value(ema') =
                         FloatAdd(FloatMul(ema.alpha, FloatOfInt(price)),
                                  FloatMul(FloatSub(FloatOfInt(1), ema.alpha),
                                           Value(ema)))
              /\ Constant(fed') => Value(ema') = FloatOfInt(price)]_vars

\* C13 (amended): alpha is 2/(window+1) and the value after the first update
\* is the first price; every later update sets the value to
\* (2*price + (window-1)*value)/(window+1), which is alpha*price +
\* (1-alpha)*value, up to the rounding of doubles; and on a constant price
\* stream the value is that price up to the rounding of doubles.
C13_ConstantStreamRounded ==
    [][fed' # fed =>
          LET price == fed'[Len(fed')]
              w == ema.window
              old == Value(ema)
              new == Value(ema')
          IN  /\ ema'.window = w
              /\ ema'.alpha = ema.alpha
              /\ Within(BigMulSmall(ema.alpha.m, w + 1), IntAtExp(2, ema.alpha.e))
              /\ ema.value.isNone => new = FloatOfInt(price)
              /\ ~ema.value.isNone =>
                     LET e == MinExp(old, new)
                     IN  Within(BigMulSmall(Scaled(new, e), w + 1),
                                BigAdd(IntAtExp(2 * price, e),
                                       BigMulSmall(Scaled(old, e), w - 1)))
              /\ Constant(fed') => Within(new.m, IntAtExp(price, new.e))]_vars

\* C13 witness: an EMA fed one price several times holds a value that is
\* not that price (15 becomes 15.000000000000002 in an EMA of window 5)
C13_Witness ==
    /\ Len(fed) >= 2
    /\ Constant(fed)
    /\ Value(ema) # FloatOfInt(fed[1])

====
